---- MODULE Spec2Model ----
(***************************************************************************)
(* A model of examples/nim_rfdiffusion_client.py: a script that makes sure *)
(* 1R42.pdb is present (downloading it when absent), keeps the first 400   *)
(* ATOM lines of it, POSTs them with three fixed parameters to a local     *)
(* RFdiffusion service, prints a preview of the answer and writes the      *)
(* answer's output_pdb field to output.pdb.                                *)
(*                                                                         *)
(* Text is a sequence of one-character strings, so that splitting,         *)
(* prefix tests, slicing and joining are computed and not assumed.         *)
(***************************************************************************)
EXTENDS Integers, Sequences, FiniteSets

\* ------------------------------------------------------------ bounds
\* The longest structure file enumerated line by line (every sequence of
\* LineKinds of at most this many lines is an input).
MaxLines == 2

\* ------------------------------------------------- program constants
\* list(lines)[:400]
AtomLineLimit == 400
\* r.text[:200]
PreviewLen == 200
\* "diffusion_steps": 15
diffusion_steps == 15

Min(a, b) == IF a <= b THEN a ELSE b

\* ------------------------------------------------------ text helpers
NL == "\n"
ATOM == <<"A","T","O","M">>

\* str.split("\n") on s[lo..hi]: the pieces between newlines; k newlines
\* give k+1 pieces, the empty text gives the one piece "".  Computed by
\* halving the range: the last piece of the left half and the first piece
\* of the right half are the two ends of one piece.
RECURSIVE splitRange(_, _, _)
splitRange(s, lo, hi) ==
  IF lo > hi THEN << <<>> >>
  ELSE IF lo = hi
    THEN (IF s[lo] = NL THEN << <<>>, <<>> >> ELSE << <<s[lo]>> >>)
    ELSE LET mid == (lo + hi) \div 2
             L == splitRange(s, lo, mid)
             R == splitRange(s, mid + 1, hi)
         IN  SubSeq(L, 1, Len(L) - 1)
               \o << L[Len(L)] \o R[1] >>
               \o SubSeq(R, 2, Len(R))

split(s) == splitRange(s, 1, Len(s))

\* line.startswith(prefix)
startswith(line, prefix) ==
  /\ Len(line) >= Len(prefix)
  /\ SubSeq(line, 1, Len(prefix)) = prefix

\* A faulty isAtomLine: the prefix looked for anywhere in the line
isAtomLineAnywhere(line) ==
  \E p \in 1..Len(line) :
    p + 3 <= Len(line) /\ SubSeq(line, p, p + 3) = ATOM

\* lambda line: line.startswith("ATOM")
isAtomLine(line) == startswith(line, ATOM)

\* filter(lambda line: line.startswith("ATOM"), ...): the lines that pass,
\* in their order
filter(ls) == SelectSeq(ls, isAtomLine)

\* A faulty slice: the bound forgotten
sliceAll(ls, n) == ls

\* seq[:n]
slice(ls, n) == SubSeq(ls, 1, Min(n, Len(ls)))

\* "\n".join(ls[lo..hi]): the lines with one newline between neighbours
RECURSIVE joinRange(_, _, _)
joinRange(ls, lo, hi) ==
  IF lo > hi THEN <<>>
  ELSE IF lo = hi THEN ls[lo]
  ELSE LET mid == (lo + hi) \div 2
       IN  joinRange(ls, lo, mid) \o <<NL>> \o joinRange(ls, mid + 1, hi)

join(ls) == joinRange(ls, 1, Len(ls))

\* lines = filter(..., pdb.read_text().split("\n"))
lines(text) == filter(split(text))

\* A faulty reduced: the first 400 lines taken before the filter, not after
reducedSliceFirst(text) == join(filter(slice(split(text), AtomLineLimit)))

\* return "\n".join(list(lines)[:400])
reduced(text) == join(slice(lines(text), AtomLineLimit))

\* ------------------------------------------------- json.loads(r.text)
\* The response bodies the service is modelled to send are JSON documents of
\* this fragment, or no JSON at all: a scalar (a string without escapes, a
\* number in digits, null), the empty list, and an object with no member or
\* with one member whose value is a scalar; blanks may surround each token.
\* A parsed value is a record: t its type ("err" when the text is no JSON
\* document), s the text of a string or a number, n the number of members of
\* an object, k its member's key, mt and ms its member's type and text.
Quote == "\""
Blank == {" ", NL}
Digit == {"0","1","2","3","4","5","6","7","8","9"}

\* The text without the blanks before its first and after its last other
\* character
trim(t) ==
  IF \A i \in 1..Len(t) : t[i] \in Blank THEN <<>>
  ELSE SubSeq(t,
         CHOOSE i \in 1..Len(t) :
           t[i] \notin Blank /\ \A j \in 1..(i - 1) : t[j] \in Blank,
         CHOOSE i \in 1..Len(t) :
           t[i] \notin Blank /\ \A j \in (i + 1)..Len(t) : t[j] \in Blank)

JsonValue(t, s, n, k, mt, ms) ==
  [t |-> t, s |-> s, n |-> n, k |-> k, mt |-> mt, ms |-> ms]
JsonError == JsonValue("err", <<>>, 0, <<>>, "", <<>>)
JsonScalar(t, s) == JsonValue(t, s, 0, <<>>, "", <<>>)

isJsonString(t) ==
  /\ Len(t) >= 2
  /\ t[1] = Quote
  /\ t[Len(t)] = Quote
  /\ \A i \in 2..(Len(t) - 1) : t[i] \notin {Quote, "\\", NL}

isJsonNumber(t) ==
  /\ Len(t) >= 1
  /\ \A i \in 1..Len(t) : t[i] \in Digit
  /\ (Len(t) = 1 \/ t[1] # "0")

parseScalar(t0) ==
  LET t == trim(t0)
  IN  IF t = <<"n","u","l","l">> THEN JsonScalar("null", <<>>)
      ELSE IF isJsonString(t) THEN JsonScalar("str", SubSeq(t, 2, Len(t) - 1))
      ELSE IF isJsonNumber(t) THEN JsonScalar("num", t)
      ELSE JsonError

parseMember(inner) ==
  LET close == {i \in 2..Len(inner) : inner[i] = Quote}
      q2    == CHOOSE i \in close : \A j \in close : i <= j
      key   == SubSeq(inner, 1, q2)
      rest  == trim(SubSeq(inner, q2 + 1, Len(inner)))
      val   == parseScalar(SubSeq(rest, 2, Len(rest)))
  IN  IF inner[1] # Quote \/ close = {} THEN JsonError
      ELSE IF ~isJsonString(key) THEN JsonError
      ELSE IF rest = <<>> \/ rest[1] # ":" THEN JsonError
      ELSE IF val.t = "err" THEN JsonError
      ELSE JsonValue("obj", <<>>, 1, SubSeq(key, 2, Len(key) - 1), val.t, val.s)

json_loads(text) ==
  LET t == trim(text)
  IN  IF t = <<>> THEN JsonError
      ELSE IF t[1] = "{"
        THEN IF t[Len(t)] # "}" THEN JsonError
             ELSE LET inner == trim(SubSeq(t, 2, Len(t) - 1))
                  IN  IF inner = <<>>
                        THEN JsonValue("obj", <<>>, 0, <<>>, "", <<>>)
                        ELSE parseMember(inner)
      ELSE IF t = <<"[", "]">> THEN JsonScalar("list", <<>>)
      ELSE parseScalar(t)

\* ----------------------------------------------------------- inputs
\* The lines a structure file is enumerated from: two different ATOM
\* records, a near miss of the prefix, a HETATM record, an ATOM record
\* behind a blank, and the empty line.
LineKinds ==
  { <<"A","T","O","M","1">>, ATOM, <<"A","T","O">>,
    <<"H","E","T","A","T","M">>, <<" ","A","T","O","M">>, <<>> }

\* The text of a file holding the lines ls: a newline between neighbours.
RECURSIVE textOf(_)
textOf(ls) ==
  IF Len(ls) = 0 THEN <<>>
  ELSE IF Len(ls) = 1 THEN ls[1]
  ELSE ls[1] \o <<NL>> \o textOf(Tail(ls))

ShortTexts ==
  { textOf(ls) : ls \in UNION { [1..n -> LineKinds] : n \in 0..MaxLines } }

DigitChar == <<"0","1","2","3","4","5","6","7","8","9">>

\* A file of n records of six characters, each followed by a newline but
\* the last: record i is HETATM when every > 0 divides i, and otherwise
\* ATOM and the last two digits of i.
bigText(n, every) ==
  [p \in 1..(7 * n - 1) |->
     LET i == ((p - 1) \div 7) + 1
         c == ((p - 1) % 7) + 1
     IN  IF c = 7 THEN NL
         ELSE IF every > 0 /\ i % every = 0
           THEN <<"H","E","T","A","T","M">>[c]
         ELSE IF c <= 4 THEN ATOM[c]
         ELSE IF c = 5 THEN DigitChar[((i \div 10) % 10) + 1]
         ELSE DigitChar[(i % 10) + 1]]

\* Files around the limit of 400 ATOM lines, and the file of 500 lines of
\* which 450 are ATOM lines.
LongTexts ==
  { bigText(AtomLineLimit - 1, 0), bigText(AtomLineLimit, 0),
    bigText(AtomLineLimit + 1, 0), bigText(AtomLineLimit + 100, 10) }

PdbTexts == ShortTexts \cup LongTexts

\* A file of the working directory: absent, or present with its text.
Absent == [exists |-> FALSE, text |-> <<>>]
File(text) == [exists |-> TRUE, text |-> text]

\* What output.pdb holds before the first run, when it is there.
OldOutput == <<"O","L","D">>

\* An HTTP response: its status and its body, r.text.
Response(status, text) == [status |-> status, text |-> text]
NoResponse == Response(0, <<>>)

\* What files.rcsb.org may answer, with a success or an error status: an
\* empty body, an error page, a structure.
GetResponses ==
  { Response(st, b) :
      st \in {200, 404},
      b \in { <<>>, <<"<","h","t","m","l",">">>,
              <<"A","T","O","M","1",NL,"H","E","T","A","T","M",NL,"A","T","O","M",NL>> } }

MOCKDATA == <<"M","O","C","K","D","A","T","A">>
output_pdb == <<"o","u","t","p","u","t","_","p","d","b">>
BodyHead == <<"{",Quote>> \o output_pdb \o <<Quote,":"," ">>

\* {"output_pdb": "XX...X"}: an answer longer than the preview
LongBody == BodyHead \o <<Quote>> \o [i \in 1..(PreviewLen + 50) |-> "X"] \o <<Quote,"}">>

OkBody == BodyHead \o <<Quote>> \o MOCKDATA \o <<Quote,"}">>
DetailBody ==
  <<"{",Quote,"d","e","t","a","i","l",Quote,":"," ",Quote,"e","r","r","o","r",Quote,"}">>
ErrorPage ==
  <<"I","n","t","e","r","n","a","l"," ","S","e","r","v","e","r"," ","E","r","r","o","r">>

\* The bodies the service may answer with: the structure, short and long and
\* empty; a value that is no string; an object without the key; text that
\* is no JSON; JSON that is no object.
PostBodies ==
  { OkBody,
    LongBody,
    BodyHead \o <<Quote,Quote,"}">>,
    BodyHead \o <<"1","5","}">>,
    BodyHead \o <<"n","u","l","l","}">>,
    DetailBody,
    <<"{","}">>,
    ErrorPage,
    BodyHead \o <<Quote,"M","O","C","K">>,
    <<>>,
    <<"[","]">>,
    <<Quote>> \o MOCKDATA \o <<Quote>>,
    <<"n","u","l","l">> }

\* What the service may answer: any of the bodies with status 200, and with
\* an error status the structure, an error object, an error page or nothing.
PostResponses ==
  { Response(200, b) : b \in PostBodies }
    \cup { Response(st, b) : st \in {422, 500},
                             b \in {OkBody, DetailBody, ErrorPage, <<>>} }

\* How Path.write_text may end: the text is written; open() raises and the
\* file is as before; the write raises after open() has truncated or created
\* the file, which then holds nothing or a part of the text.
WriteOutcomes == {"ok", "open_fails", "write_fails_empty", "write_fails_part"}

\* ------------------------------------------------------------ state
VARIABLES
  pc,         \* the statement the run is at; "done" and "crashed" end a run
  exc,        \* the exception that ended the run, "" when none has
  pdb,        \* the file 1R42.pdb
  output,     \* the file output.pdb
  got,        \* the response of requests.get, before it is written
  input_pdb,  \* the value get_reduced_pdb() returned
  r,          \* the response of requests.post
  data,       \* json.loads(r.text)["output_pdb"]
  log,        \* what the run has done so far: its requests, reads, writes and prints
  pdb0,       \* 1R42.pdb as the run found it
  output0     \* output.pdb as the run found it

vars == <<pc, exc, pdb, output, got, input_pdb, r, data, log, pdb0, output0>>

PDB_URL == "https://files.rcsb.org/download/1R42.pdb"
POST_URL == "http://localhost:8000/biology/ipd/rfdiffusion/generate"
PDB_PATH == "1R42.pdb"
OUTPUT_PATH == "output.pdb"

NoData == JsonScalar("none", <<>>)

\* One thing the run did.  what is a request's payload, a print's
\* arguments, the outcome of a write; events are told apart by op.
Event(op, target, what) == [op |-> op, target |-> target, what |-> what]

\* A faulty payload: a hotspot residue dropped
payloadShort(text) ==
  [ input_pdb       |-> text,
    contigs         |-> "A20-60/0 50-100",
    hotspot_res     |-> <<"A50", "A51", "A52", "A53">>,
    diffusion_steps |-> diffusion_steps ]

\* The json= argument of requests.post
payload(text) ==
  [ input_pdb       |-> text,
    contigs         |-> "A20-60/0 50-100",
    hotspot_res     |-> <<"A50", "A51", "A52", "A53", "A54">>,
    diffusion_steps |-> diffusion_steps ]

\* r.text[:200]
preview(text) == slice(text, PreviewLen)

\* A faulty printed: the whole body printed
printedAll(resp) ==
  << [Response |-> resp.status], "Saving to output.pdb:\n", resp.text, "..." >>

\* print(r, "Saving to output.pdb:\n", r.text[:200], "...")
printed(resp) ==
  << [Response |-> resp.status], "Saving to output.pdb:\n", preview(resp.text), "..." >>

\* A faulty write_text: the file opened for appending
write_text_append(f, text, outcome) ==
  CASE outcome = "ok"                -> File(f.text \o text)
    [] outcome = "open_fails"        -> f
    [] outcome = "write_fails_empty" -> File(f.text)
    [] outcome = "write_fails_part"  -> File(f.text \o SubSeq(text, 1, Len(text) \div 2))

\* Path.write_text(text) on file f, ending as outcome says
write_text(f, text, outcome) ==
  CASE outcome = "ok"                -> File(text)
    [] outcome = "open_fails"        -> f
    [] outcome = "write_fails_empty" -> File(<<>>)
    [] outcome = "write_fails_part"  -> File(SubSeq(text, 1, Len(text) \div 2))

\* An uncaught exception: the traceback is printed and the process ends.
raise(e) == pc' = "crashed" /\ exc' = e

Init ==
  /\ pc = "exists"
  /\ exc = ""
  /\ pdb \in {Absent} \cup { File(t) : t \in PdbTexts }
  /\ output \in {Absent, File(OldOutput)}
  /\ got = NoResponse
  /\ input_pdb = <<>>
  /\ r = NoResponse
  /\ data = NoData
  /\ log = <<>>
  /\ pdb0 = pdb
  /\ output0 = output

\* A faulty Exists: the download not guarded by the existence test
ExistsUnguarded ==
  /\ pc = "exists"
  /\ pc' = "get"
  /\ UNCHANGED <<exc, pdb, output, got, input_pdb, r, data, log, pdb0, output0>>

\* if not pdb.exists():
Exists ==
  /\ pc = "exists"
  /\ pc' = IF pdb.exists THEN "read" ELSE "get"
  /\ UNCHANGED <<exc, pdb, output, got, input_pdb, r, data, log, pdb0, output0>>

\* requests.get(f"https://files.rcsb.org/download/{pdb}") returns a response
\* of whatever status
Get ==
  /\ pc = "get"
  /\ log' = Append(log, Event("GET", PDB_URL, <<>>))
  /\ \E resp \in GetResponses : got' = resp
  /\ pc' = "store"
  /\ UNCHANGED <<exc, pdb, output, input_pdb, r, data, pdb0, output0>>

\* A faulty GetRaises: the file opened for writing before the request is made
GetRaisesAfterOpen ==
  /\ pc = "get"
  /\ log' = Append(log, Event("GET", PDB_URL, <<>>))
  /\ raise("ConnectionError")
  /\ pdb' = File(<<>>)
  /\ UNCHANGED <<output, got, input_pdb, r, data, pdb0, output0>>

\* requests.get raises: no route, refused, reset
GetRaises ==
  /\ pc = "get"
  /\ log' = Append(log, Event("GET", PDB_URL, <<>>))
  /\ raise("ConnectionError")
  /\ UNCHANGED <<pdb, output, got, input_pdb, r, data, pdb0, output0>>

\* A faulty Store: the status checked before the body is written
StoreChecked ==
  /\ pc = "store"
  /\ IF got.status # 200
       THEN raise("HTTPError") /\ UNCHANGED <<pdb, log>>
       ELSE \E outcome \in WriteOutcomes :
              /\ pdb' = write_text(pdb, got.text, outcome)
              /\ log' = Append(log, Event("WRITE", PDB_PATH, outcome))
              /\ IF outcome = "ok"
                   THEN pc' = "read" /\ exc' = exc
                   ELSE raise("OSError")
  /\ UNCHANGED <<output, got, input_pdb, r, data, pdb0, output0>>

\* pdb.write_text(<response>.text)
Store ==
  /\ pc = "store"
  /\ \E outcome \in WriteOutcomes :
       /\ pdb' = write_text(pdb, got.text, outcome)
       /\ log' = Append(log, Event("WRITE", PDB_PATH, outcome))
       /\ IF outcome = "ok"
            THEN pc' = "read" /\ exc' = exc
            ELSE raise("OSError")
  /\ UNCHANGED <<output, got, input_pdb, r, data, pdb0, output0>>

\* lines = filter(..., pdb.read_text().split("\n"))
\* return "\n".join(list(lines)[:400])
Read ==
  /\ pc = "read"
  /\ log' = Append(log, Event("READ", PDB_PATH, <<>>))
  /\ input_pdb' = reduced(pdb.text)
  /\ pc' = "post"
  /\ UNCHANGED <<exc, pdb, output, got, r, data, pdb0, output0>>

\* r = requests.post(url=..., json={...}) returns a response of whatever
\* status
Post ==
  /\ pc = "post"
  /\ log' = Append(log, Event("POST", POST_URL, payload(input_pdb)))
  /\ \E resp \in PostResponses : r' = resp
  /\ pc' = "print"
  /\ UNCHANGED <<exc, pdb, output, got, input_pdb, data, pdb0, output0>>

\* requests.post raises: nothing listens on localhost:8000
PostRaises ==
  /\ pc = "post"
  /\ log' = Append(log, Event("POST", POST_URL, payload(input_pdb)))
  /\ raise("ConnectionError")
  /\ UNCHANGED <<pdb, output, got, input_pdb, r, data, pdb0, output0>>

\* print(r, "Saving to output.pdb:\n", r.text[:200], "...")
PrintPreview ==
  /\ pc = "print"
  /\ log' = Append(log, Event("PRINT", "stdout", printed(r)))
  /\ pc' = "loads"
  /\ UNCHANGED <<exc, pdb, output, got, input_pdb, r, data, pdb0, output0>>

\* A faulty Loads: the key looked up with a default, .get("output_pdb", "")
LoadsDefault ==
  /\ pc = "loads"
  /\ LET v == json_loads(r.text)
     IN  CASE v.t = "err" ->
                raise("JSONDecodeError") /\ data' = data
           [] v.t = "obj" /\ v.n = 1 /\ v.k = output_pdb ->
                pc' = "write" /\ exc' = exc /\ data' = JsonScalar(v.mt, v.ms)
           [] v.t = "obj" /\ ~(v.n = 1 /\ v.k = output_pdb) ->
                pc' = "write" /\ exc' = exc /\ data' = JsonScalar("str", <<>>)
           [] OTHER ->
                raise("TypeError") /\ data' = data
  /\ UNCHANGED <<pdb, output, got, input_pdb, r, log, pdb0, output0>>

\* json.loads(r.text)["output_pdb"]
Loads ==
  /\ pc = "loads"
  /\ LET v == json_loads(r.text)
     IN  CASE v.t = "err" ->
                raise("JSONDecodeError") /\ data' = data
           [] v.t = "obj" /\ v.n = 1 /\ v.k = output_pdb ->
                pc' = "write" /\ exc' = exc /\ data' = JsonScalar(v.mt, v.ms)
           [] v.t = "obj" /\ ~(v.n = 1 /\ v.k = output_pdb) ->
                raise("KeyError") /\ data' = data
           [] OTHER ->
                raise("TypeError") /\ data' = data
  /\ UNCHANGED <<pdb, output, got, input_pdb, r, log, pdb0, output0>>

\* Path("output.pdb").write_text(...): a value that is no str is refused
\* before the file is opened
Write ==
  /\ pc = "write"
  /\ IF data.t # "str"
       THEN /\ raise("TypeError")
            /\ UNCHANGED <<output, log>>
       ELSE \E outcome \in WriteOutcomes :
              /\ output' = write_text(output, data.s, outcome)
              /\ log' = Append(log, Event("WRITE", OUTPUT_PATH, outcome))
              /\ IF outcome = "ok"
                   THEN pc' = "done" /\ exc' = exc
                   ELSE raise("OSError")
  /\ UNCHANGED <<pdb, got, input_pdb, r, data, pdb0, output0>>

\* The script is run again in the same working directory.
Rerun ==
  /\ pc \in {"done", "crashed"}
  /\ pc' = "exists"
  /\ exc' = ""
  /\ got' = NoResponse
  /\ input_pdb' = <<>>
  /\ r' = NoResponse
  /\ data' = NoData
  /\ log' = <<>>
  /\ pdb0' = pdb
  /\ output0' = output
  /\ UNCHANGED <<pdb, output>>

Next ==
  \/ Exists
  \/ Get
  \/ GetRaises
  \/ Store
  \/ Read
  \/ Post
  \/ PostRaises
  \/ PrintPreview
  \/ Loads
  \/ Write
  \/ Rerun

Spec == Init /\ [][Next]_vars

\* ------------------------------------------- what the claims speak of
\* The claims are stated on the characters of the texts, without the
\* operators the script is modelled with.

\* The positions of s at which a line begins, in order: position 1, and
\* each position that follows a newline (one past the end included).
lineStarts(s) ==
  SelectSeq([p \in 1..(Len(s) + 1) |-> p], LAMBDA p : p = 1 \/ s[p - 1] = NL)

\* The line of s that begins at position p: up to the next newline or the end
lineAt(s, p) ==
  SubSeq(s, p,
    CHOOSE e \in (p - 1)..Len(s) :
      /\ \A j \in p..e : s[j] # NL
      /\ (e = Len(s) \/ s[e + 1] = NL))

\* The lines of a text, the empty text having the one line ""
textLines(s) ==
  LET starts == lineStarts(s)
  IN  [k \in 1..Len(starts) |-> lineAt(s, starts[k])]

\* The lines of a returned string, the empty string having no line
stringLines(s) == IF s = <<>> THEN <<>> ELSE textLines(s)

\* The number of lines of a returned string
lineCount(s) == IF s = <<>> THEN 0 ELSE Len(lineStarts(s))

\* The line begins with the four characters A, T, O, M
hasAtomPrefix(l) ==
  Len(l) >= 4 /\ l[1] = "A" /\ l[2] = "T" /\ l[3] = "O" /\ l[4] = "M"

\* The ATOM lines of a text, in the order of the text
atomLines(s) == SelectSeq(textLines(s), hasAtomPrefix)

\* The places of the log where op was done on target
done(op, target) ==
  { i \in 1..Len(log) : log[i].op = op /\ log[i].target = target }

Terminal == pc \in {"done", "crashed"}

\* ---------------------------------------------------------------- C1
\* C1: a run that finds 1R42.pdb present issues no GET and leaves the file
\* as it found it, whatever it holds; the file is carried from run to run,
\* so this holds of every run of a sequence.
C1_DownloadGuard ==
  pdb0.exists => (done("GET", PDB_URL) = {} /\ pdb = pdb0)

\* A run that ended having found, as 1R42.pdb, the error page an earlier run
\* had stored
C1_Witness ==
  /\ pc = "done"
  /\ pdb0 = File(<<"<","h","t","m","l",">">>)
  /\ pdb = pdb0

\* ---------------------------------------------------------------- C2
\* C2: the string get_reduced_pdb returns has min(400, n) lines, n the number
\* of lines of the file that begin with ATOM, and the input_pdb of a request
\* never has more than 400 lines.
C2_TruncationBound ==
  /\ pc = "post" =>
       lineCount(input_pdb) = Min(AtomLineLimit, Len(atomLines(pdb.text)))
  /\ \A i \in done("POST", POST_URL) :
       lineCount(log[i].what.input_pdb) <= AtomLineLimit

\* get_reduced_pdb has returned 400 lines of a file with more ATOM lines
C2_Witness ==
  /\ pc = "post"
  /\ Len(atomLines(pdb.text)) > AtomLineLimit
  /\ lineCount(input_pdb) = AtomLineLimit

\* ---------------------------------------------------------------- C3
\* C3: the lines of the returned string are the first min(400, n) ATOM lines
\* of the file, one for one and in the file's order.
C3_OrderPreserved ==
  pc = "post" =>
    LET want == atomLines(pdb.text)
    IN  stringLines(input_pdb) = SubSeq(want, 1, Min(AtomLineLimit, Len(want)))

\* The file has two different ATOM lines with another line between them,
\* and both were returned
C3_Witness ==
  /\ pc = "post"
  /\ Len(stringLines(input_pdb)) >= 2
  /\ stringLines(input_pdb)[1] # stringLines(input_pdb)[2]
  /\ Len(textLines(pdb.text)) > Len(stringLines(input_pdb))

\* ---------------------------------------------------------------- C4
\* C4: every line of the returned string begins with ATOM.
C4_OnlyAtomLines ==
  pc = "post" =>
    LET have == stringLines(input_pdb)
    IN  \A k \in 1..Len(have) : hasAtomPrefix(have[k])

\* A file with an ATOM line and a line that has ATOM behind a blank: the
\* one was returned and the other was not
C4_Witness ==
  /\ pc = "post"
  /\ LET all == textLines(pdb.text)
     IN  \E k \in 1..Len(all) : all[k] = <<" ","A","T","O","M">>
  /\ Len(stringLines(input_pdb)) = 1

\* ---------------------------------------------------------------- C5
\* C5: every POST goes to the generate endpoint with a body of exactly the
\* keys input_pdb, contigs, hotspot_res and diffusion_steps; contigs is
\* "A20-60/0 50-100", hotspot_res the list A50..A54, diffusion_steps 15, and
\* input_pdb what get_reduced_pdb returned, whatever the structure file holds.
C5_PayloadShape ==
  \A i \in 1..Len(log) :
    log[i].op = "POST" =>
      /\ log[i].target = "http://localhost:8000/biology/ipd/rfdiffusion/generate"
      /\ DOMAIN log[i].what =
           {"input_pdb", "contigs", "hotspot_res", "diffusion_steps"}
      /\ log[i].what.contigs = "A20-60/0 50-100"
      /\ Len(log[i].what.hotspot_res) = 5
      /\ log[i].what.hotspot_res = <<"A50", "A51", "A52", "A53", "A54">>
      /\ log[i].what.diffusion_steps = 15
      /\ log[i].what.input_pdb = input_pdb

\* The POST has been issued for a structure file with two ATOM lines
C5_Witness ==
  /\ done("POST", POST_URL) # {}
  /\ lineCount(input_pdb) = 2

\* ---------------------------------------------------------------- C6
Returned == r # NoResponse

\* What the body of the response is read as
body == IF Returned THEN json_loads(r.text) ELSE JsonError

\* The JSON value v is an object with the key output_pdb
hasOutputPdb(v) == v.t = "obj" /\ v.n = 1 /\ v.k = output_pdb

outputWriteFailed ==
  \E i \in done("WRITE", OUTPUT_PATH) : log[i].what # "ok"

\* The file of 500 lines of which 450 are ATOM lines, and the service that
\* answers {"output_pdb": "MOCKDATA"}
Scenario ==
  /\ r.text = OkBody
  /\ Len(pdb.text) = 3499
  /\ pdb = File(bigText(500, 10))

networkFailed == exc = "ConnectionError"
nonSuccessStatus == Returned /\ r.status \notin 200..299
malformedJson(v) == Returned /\ v.t = "err"
missingKey(v) == Returned /\ v.t # "err" /\ ~hasOutputPdb(v)
writeFailed == \E i \in 1..Len(log) : log[i].op = "WRITE" /\ log[i].what # "ok"
outputWritten ==
  \E i \in done("WRITE", OUTPUT_PATH) : log[i].what = "ok"

\* C7 as claimed: a run with a network failure, a non-2xx status of the POST,
\* a malformed body, a body without output_pdb or a failed write never gets
\* to write output.pdb.
C7_AsClaimed ==
  LET v == body
  IN  (networkFailed \/ nonSuccessStatus \/ malformedJson(v) \/ missingKey(v)
         \/ writeFailed)
        => (pc \notin {"write", "done"} /\ ~outputWritten)

\* C7, amended: a request that raises, a body that is no JSON, a JSON body
\* without the key output_pdb and a failed write each end the run at once, with
\* output.pdb not written.  The status of the POST is not among them: it is
\* never looked at, and what a non-2xx answer leads to is decided by its body
\* alone, as for a 2xx answer.
C7_FailFast ==
  LET v == body
  IN  /\ (networkFailed \/ malformedJson(v) \/ missingKey(v) \/ writeFailed)
           => (pc \notin {"write", "done"} /\ ~outputWritten)
      /\ Terminal =>
           /\ networkFailed =>
                (pc = "crashed" /\ log[Len(log)].op \in {"GET", "POST"})
           /\ malformedJson(v) => (pc = "crashed" /\ exc = "JSONDecodeError")
           /\ missingKey(v) =>
                (pc = "crashed" /\ exc \in {"KeyError", "TypeError"})
           /\ writeFailed =>
                (pc = "crashed" /\ exc = "OSError" /\ log[Len(log)].op = "WRITE")
           /\ (nonSuccessStatus /\ ~outputWriteFailed) =>
                (pc = "done" <=> (hasOutputPdb(v) /\ v.mt = "str"))

\* The service answered 500 with an error page, and the run ended on it
C7_Witness ==
  /\ pc = "crashed"
  /\ exc = "JSONDecodeError"
  /\ r = Response(500, ErrorPage)
  /\ output = output0

\* ---------------------------------------------------------------- C8
\* The run is past the download step
ensured == pc \in {"read", "post", "print", "loads", "write", "done"}
             \/ done("READ", PDB_PATH) # {}

\* C8: a run that finds 1R42.pdb absent and whose GET returns stores the body
\* as it came, whatever the status and the body; the only thing that can
\* stop it between the answer and the read is the write failing.  So past
\* the download step the file is there, holding what the run found or what
\* the GET answered.
C8_DownloadOnDemand ==
  /\ ensured =>
       /\ pdb.exists
       /\ pdb0.exists => (pdb = pdb0 /\ got = NoResponse)
       /\ ~pdb0.exists => (got # NoResponse /\ pdb = File(got.text))
  /\ (pc = "crashed" /\ got # NoResponse /\ ~ensured) =>
       (exc = "OSError" /\ log[Len(log)].op = "WRITE"
          /\ log[Len(log)].target = PDB_PATH /\ log[Len(log)].what # "ok")

\* The download answered 404 with an empty body, and the empty file was
\* stored and is about to be read
C8_Witness ==
  /\ pc = "read"
  /\ ~pdb0.exists
  /\ got = Response(404, <<>>)
  /\ pdb = File(<<>>)

\* ---------------------------------------------------------------- C9
\* The first place of the log where op was done on target (0 when nowhere)
first(op, target) ==
  IF done(op, target) = {} THEN 0
  ELSE CHOOSE i \in done(op, target) : \A j \in done(op, target) : i <= j

\* C9: what a run does is a prefix of GET?, write 1R42.pdb?, read 1R42.pdb,
\* POST, print, write output.pdb, each at most once: the GET and the read come
\* before the POST, the POST is issued with 1R42.pdb present, the preview
\* (the response, the label, the first 200 characters of the body, the dots)
\* is printed after the POST has returned and before output.pdb is written,
\* and nothing follows the write of output.pdb.
C9_StepOrder ==
  /\ \A i, j \in 1..Len(log) :
       (log[i].op = log[j].op /\ log[i].target = log[j].target) => i = j
  /\ done("POST", POST_URL) # {} =>
       /\ pdb.exists
       /\ first("READ", PDB_PATH) \in 1..(first("POST", POST_URL) - 1)
       /\ first("GET", PDB_URL) < first("READ", PDB_PATH)
       /\ first("WRITE", PDB_PATH) < first("READ", PDB_PATH)
  /\ done("WRITE", PDB_PATH) # {} =>
       first("GET", PDB_URL) \in 1..(first("WRITE", PDB_PATH) - 1)
  /\ done("PRINT", "stdout") # {} =>
       /\ Returned
       /\ first("POST", POST_URL) \in 1..(first("PRINT", "stdout") - 1)
       /\ LET p == log[first("PRINT", "stdout")].what
          IN  /\ Len(p) = 4
              /\ p[1] = [Response |-> r.status]
              /\ p[2] = "Saving to output.pdb:\n"
              /\ Len(p[3]) = Min(200, Len(r.text))
              /\ \A k \in 1..Len(p[3]) : p[3][k] = r.text[k]
              /\ p[4] = "..."
  /\ done("WRITE", OUTPUT_PATH) # {} =>
       /\ first("PRINT", "stdout") \in 1..(first("WRITE", OUTPUT_PATH) - 1)
       /\ first("WRITE", OUTPUT_PATH) = Len(log)
       /\ Terminal
  /\ output # output0 => done("WRITE", OUTPUT_PATH) # {}

\* A run that had to download has ended, having printed the first 200
\* characters of a longer answer
C9_Witness ==
  /\ pc = "done"
  /\ Len(log) = 6
  /\ log[1].op = "GET"
  /\ Len(r.text) > 200
  /\ Len(log[5].what[3]) = 200

\* --------------------------------------------------------------- C10
\* C10: a run that failed has left every file it did not get to write as it
\* found it.  When the GET raised, 1R42.pdb is still absent, so that the next
\* run asks for it again, no POST was issued and output.pdb is as before; when
\* the POST raised, or its body was no JSON or had no key output_pdb,
\* output.pdb is as before, in the last two cases after the preview was
\* printed.
C10_UnchangedOnError ==
  pc = "crashed" =>
       /\ done("WRITE", PDB_PATH) = {} => pdb = pdb0
       /\ done("WRITE", OUTPUT_PATH) = {} => output = output0
       /\ (exc = "ConnectionError" /\ done("POST", POST_URL) = {}) =>
            (~pdb.exists /\ pdb = pdb0 /\ output = output0)
       /\ (exc = "ConnectionError" /\ done("POST", POST_URL) # {}) =>
            (output = output0 /\ done("PRINT", "stdout") = {})
       /\ exc \in {"JSONDecodeError", "KeyError"} =>
            (output = output0 /\ done("PRINT", "stdout") # {})

\* The answer had no key output_pdb: the preview is printed, the run has
\* failed, and the output.pdb of an earlier run is as it was
C10_Witness ==
  /\ pc = "crashed"
  /\ exc = "KeyError"
  /\ output0 = File(MOCKDATA)
  /\ output = output0
  /\ done("PRINT", "stdout") # {}

====
